---- MODULE Spec2Model ----
(***************************************************************************)
(* A model of @andreasnicolaou/safe: the factory createSafeUtils and its   *)
(* six operations (safe, safeAsync, safeAll, safeObservable,               *)
(* safeObservableAll, safeWithRetries) together with the helpers           *)
(* normalizeError, calculateDelay and safeTimeout.                         *)
(*                                                                         *)
(* One behaviour is the life of one operation set: it is created from a    *)
(* deps object, one operation is called, and the environment (the caller's *)
(* promises, the timers, the subscribers) then drives the call to its end. *)
(* JavaScript runs every callback to completion, so one action is one      *)
(* synchronous stretch of code: from a call, a promise reaction or a timer *)
(* callback up to the next await.                                          *)
(***************************************************************************)
EXTENDS Integers, Sequences, FiniteSets, TLC

(***************************************************************************)
(* Bounds of the model.                                                    *)
(***************************************************************************)
MaxRetries == 2
MaxItems == 2
MaxSubs == 2

(***************************************************************************)
(* JavaScript values.  Every value is a record with the fields t (its      *)
(* type), v (its payload; the message of an Error) and id (the identity of *)
(* an object, "-" for primitives).                                         *)
(***************************************************************************)
Undefined == [t |-> "undefined", v |-> "", id |-> "-"]
Null == [t |-> "null", v |-> "", id |-> "-"]
Str(s) == [t |-> "string", v |-> s, id |-> "-"]
Obj(i) == [t |-> "object", v |-> "", id |-> i]
ErrorObj(i, m) == [t |-> "Error", v |-> m, id |-> i]
\* an object that has no conversion to a primitive, such as Object.create(null)
Bare(i) == [t |-> "bare", v |-> "", id |-> i]

\* new Error(message): a fresh object, distinct from every Error the caller made
NewError(m) == ErrorObj("new", m)

\* what the caller's functions and promises return or resolve with
Values == {Str("ok"), Undefined}

\* what they throw or reject with: an Error of the caller, or a value that is not an
\* Error and that String() converts
Thrown == {ErrorObj("E1", "first"), Str("boom")}

IsError(x) == x.t = "Error"

Digits == <<"0", "1", "2", "3", "4", "5", "6", "7", "8", "9">>

RECURSIVE NumStr(_)
\* String(n) of a non-negative integer
NumStr(n) == IF n < 10 THEN Digits[n + 1] ELSE NumStr(n \div 10) \o Digits[(n % 10) + 1]

\* String(x) throws a TypeError for an object that has no conversion to a primitive
StringThrows(x) == x.t = "bare"

ConversionFailure == ErrorObj("T", "Cannot convert object to primitive value")

\* String(x) for the values it converts
JSString(x) ==
  CASE x.t = "string" -> x.v
    [] x.t = "null" -> "null"
    [] x.t = "undefined" -> "undefined"
    [] x.t = "object" -> "[object Object]"
    [] x.t = "Error" -> "Error: " \o x.v

\* the value normalizeError returns, when it returns
normalizeError(error) == IF IsError(error) THEN error ELSE NewError(JSString(error))

\* normalizeError throws: the argument is no Error and String(error) throws
normalizeThrows(error) == ~IsError(error) /\ StringThrows(error)

RECURSIVE Pow2(_)
Pow2(n) == IF n <= 0 THEN 1 ELSE 2 * Pow2(n - 1)

Min(S) == CHOOSE x \in S : \A y \in S : x <= y

(***************************************************************************)
(* State.                                                                  *)
(***************************************************************************)
VARIABLES
  deps,      \* the options object given to createSafeUtils
  op,        \* the operation that was called, "none" before the call
  pc,        \* where the call stands
  log,       \* the errors the logger was called with, in call order
  result,    \* what the call returned, threw, resolved or rejected with
  calls,     \* the invocations of fn made so far, each with its outcome
  opts,      \* safeWithRetries: the options object of the call
  attempt,   \* safeWithRetries: the loop variable
  normalizedError, \* safeWithRetries: the local variable of that name
  timers,    \* the timers set with setTimeout that have not fired yet
  clock,     \* the milliseconds passed since an attempt last started or ended
  trace,     \* the history of the call: safeWithRetries: per attempt, how it ended and
             \* the times measured; safeAll, safeObservableAll: the items in the order
             \* their functions finished; safeTimeout: what happened, in order
  promises,  \* the promises handed to safeAll, safeObservableAll or safeTimeout
  jobs,      \* the promise reactions that are queued, oldest first
  items,     \* safeAll, safeObservableAll: the promise of each mapped item
  settled,   \* safeAll, safeObservableAll: the promises that have settled, in the order
             \* in which they did, those that settled before the call included
  subs,      \* the subscribers of the stream, in the order they subscribed
  cur,       \* which of two operation sets the variables above belong to, 1 or 2
  other,     \* the same variables of the other operation set, as a record
  given,     \* the options objects the two sets were created from, as they are now
  created    \* the same objects as they were when createSafeUtils was called

retryVars == <<opts, attempt, normalizedError, trace>>
timeVars == <<timers, clock>>
allVars == <<promises, jobs, items, settled>>
setVars == <<cur, other, given, created>>
vars ==
  <<deps, op, pc, log, result, calls, opts, attempt, normalizedError, timers, clock, trace,
    promises, jobs, items, settled, subs, cur, other, given, created>>

\* logging that has to be asked for
enableLogErrors_optin == deps.enableLogErrors = "true"

\* const { enableLogErrors = true, logger = console.error } = deps
enableLogErrors == IF deps.enableLogErrors = "absent" THEN TRUE ELSE deps.enableLogErrors = "true"

\* the injected logger is the caller's code: it returns, or it throws
loggerThrows == deps.logger = "throws"

LoggerFailure == ErrorObj("L", "logger failed")

\* a failure that is logged twice
Logged_twice(l, e) == IF enableLogErrors THEN Append(Append(l, e), e) ELSE l

\* if (enableLogErrors) { logger(normalizedError); }
Logged(l, e) == IF enableLogErrors THEN Append(l, e) ELSE l

\* the catch block entered with the value error throws out of itself: normalizeError
\* throws, or the logger call does
CatchThrows(error) == normalizeThrows(error) \/ (enableLogErrors /\ loggerThrows)

\* what it then throws
CatchFailure(error) == IF normalizeThrows(error) THEN ConversionFailure ELSE LoggerFailure

\* the log after the catch block entered with the value error
CatchLogged(l, error) == IF normalizeThrows(error) THEN l ELSE Logged(l, normalizeError(error))

Pending == [st |-> "pending", r |-> <<>>, x |-> Undefined]
Returned(r) == [st |-> "returned", r |-> r, x |-> Undefined]
Threw(x) == [st |-> "threw", r |-> <<>>, x |-> x]
Resolved(r) == [st |-> "resolved", r |-> r, x |-> Undefined]
Rejected(x) == [st |-> "rejected", r |-> <<>>, x |-> x]

\* the outcomes of one invocation of a function or of one promise
Outcomes == [st : {"resolved"}, v : Values] \cup [st : {"rejected"}, v : Thrown]
SyncOutcomes == [st : {"returned"}, v : Values] \cup [st : {"threw"}, v : Thrown]
PendingCall == [st |-> "pending", v |-> Undefined]

\* an optional number of an options object is the empty set when absent
NoOptions == [retries |-> 0, initialDelayMs |-> {}, jitter |-> "absent", timeoutMs |-> {}]

\* the options objects the calls of safeWithRetries are made with
RetryOptionsSet ==
  [retries : -1 .. MaxRetries, initialDelayMs : {{}, {3}}, jitter : {"absent", "true", "false"},
   timeoutMs : {{}, {0}, {2}}]

DepsOK == [enableLogErrors : {"absent", "true", "false"}, logger : {"returns"}]
DepsAny == [enableLogErrors : {"absent", "true", "false"}, logger : {"returns", "throws"}]

\* the variables of an operation set that createSafeUtils(d) has just returned
NewSet(d) ==
  [deps |-> d, op |-> "none", pc |-> "idle", log |-> <<>>, result |-> Pending, calls |-> <<>>,
   opts |-> NoOptions, attempt |-> 0, normalizedError |-> Null, timers |-> {}, clock |-> 0,
   trace |-> <<>>, promises |-> <<>>, jobs |-> <<>>, items |-> <<>>, settled |-> <<>>,
   subs |-> <<>>]

\* one operation set is used; a second one, created from the same options, stays idle
InitWith(D) ==
  /\ deps \in D
  /\ cur = 1
  /\ created = <<deps, deps>>
  /\ given = created
  /\ other = NewSet(deps)
  /\ op = "none"
  /\ pc = "idle"
  /\ log = <<>>
  /\ result = Pending
  /\ calls = <<>>
  /\ opts = NoOptions
  /\ attempt = 0
  /\ normalizedError = Null
  /\ timers = {}
  /\ clock = 0
  /\ trace = <<>>
  /\ promises = <<>>
  /\ jobs = <<>>
  /\ items = <<>>
  /\ settled = <<>>
  /\ subs = <<>>

(***************************************************************************)
(* safe                                                                    *)
(***************************************************************************)
\* safe without its try and catch
safeResult_nocatch(o) == IF o.st = "returned" THEN Returned(<<Null, o.v>>) ELSE Threw(o.v)

\* the value of the call of safe whose fn has the outcome o
safeResult(o) ==
  IF o.st = "returned" THEN Returned(<<Null, o.v>>)
  ELSE IF CatchThrows(o.v) THEN Threw(CatchFailure(o.v))
  ELSE Returned(<<normalizeError(o.v), Undefined>>)

safe(o) ==
  /\ op = "none"
  /\ op' = "safe"
  /\ calls' = <<o>>
  /\ log' = IF o.st = "threw" THEN CatchLogged(log, o.v) ELSE log
  /\ result' = safeResult(o)
  /\ pc' = "done"
  /\ UNCHANGED <<deps, setVars, retryVars, timeVars, allVars, subs>>

(***************************************************************************)
(* safeAsync                                                               *)
(***************************************************************************)
\* the catch block of safeAsync
safeAsyncCatch(error) ==
  /\ log' = CatchLogged(log, error)
  /\ result' = IF CatchThrows(error) THEN Rejected(CatchFailure(error))
               ELSE Resolved(<<normalizeError(error), Undefined>>)
  /\ pc' = "done"

\* the call: fn() is invoked at once; it returns a promise or throws
safeAsync(o) ==
  /\ op = "none"
  /\ op' = "safeAsync"
  /\ calls' = <<o>>
  /\ IF o.st = "threw" THEN safeAsyncCatch(o.v)
     ELSE /\ pc' = "await"
          /\ UNCHANGED <<log, result>>
  /\ UNCHANGED <<deps, setVars, retryVars, timeVars, allVars, subs>>

\* the promise returned by fn settles and the function resumes after its await
safeAsyncSettle(o) ==
  /\ op = "safeAsync"
  /\ pc = "await"
  /\ calls' = <<o>>
  /\ IF o.st = "resolved"
     THEN /\ result' = Resolved(<<Null, o.v>>)
          /\ pc' = "done"
          /\ log' = log
     ELSE safeAsyncCatch(o.v)
  /\ UNCHANGED <<deps, setVars, op, retryVars, timeVars, allVars, subs>>

(***************************************************************************)
(* calculateDelay and safeTimeout                                          *)
(***************************************************************************)
DefaultInitialDelayMs == 100

\* the values of Math.random() the model draws, as fractions <<num, den>> in [0, 1)
RandomSamples == {<<0, 1>>, <<9, 10>>}

\* const { initialDelayMs = 100, jitter = false } = options
initialDelayMsOf(options) ==
  IF options.initialDelayMs = {} THEN DefaultInitialDelayMs
  ELSE CHOOSE n \in options.initialDelayMs : TRUE

jitterOf(options) == options.jitter = "true"

\* a backoff keyed to the one-based number of the attempt
baseDelay_onebased(a, options) == initialDelayMsOf(options) * Pow2(a + 1)

\* initialDelayMs * Math.pow(2, attempt)
baseDelay(a, options) == initialDelayMsOf(options) * Pow2(a)

\* a jitter that is added to the base delay
calculateDelay_additive(a, options, rnd) ==
  IF jitterOf(options) THEN baseDelay(a, options) + (rnd[1] * baseDelay(a, options)) \div rnd[2]
  ELSE baseDelay(a, options)

\* rnd is the value Math.random() returns; the delay is kept in whole milliseconds
calculateDelay(a, options, rnd) ==
  IF jitterOf(options) THEN (rnd[1] * baseDelay(a, options)) \div rnd[2]
  ELSE baseDelay(a, options)

\* a test for the presence of timeoutMs, which 0 passes
timeoutSet_given(options) == options.timeoutMs # {}

\* a call that never takes the branch of safeTimeout
timeoutSet_never(options) == FALSE

\* options.timeoutMs ? ... : ...   (absent and 0 are both falsy)
timeoutSet(options) == options.timeoutMs # {} /\ options.timeoutMs # {0}

timeoutMsOf(options) == CHOOSE n \in options.timeoutMs : TRUE

\* a timeout message without its unit
TimeoutError_nounit(ms) == NewError("Timeout after " \o NumStr(ms))

\* new Error(`Timeout after ${ms}ms`)
TimeoutError(ms) == NewError("Timeout after " \o NumStr(ms) \o "ms")

\* setTimeout(callback, ms): a timer that fires when ms more milliseconds have passed
Timer(kind, a, ms) == [kind |-> kind, attempt |-> a, left |-> ms]

Due(t) == t \in timers /\ t.left <= 0

(***************************************************************************)
(* safeWithRetries                                                         *)
(***************************************************************************)
\* a loop that stops one attempt early
loopContinues_early(a, options) == a < options.retries

\* for (...; attempt <= options.retries; ...)
loopContinues(a, options) == a <= options.retries

\* if (attempt < options.retries)
attemptsRemain(a, options) == a < options.retries

\* a success that does not hand over the value
retryReturn_novalue(v) == Resolved(<<Null, Undefined>>)

\* return [null, result]
retryReturn(v) == Resolved(<<Null, v>>)

\* an exhaustion that is reported by an error of its own
retryExhausted_distinct(e) == Resolved(<<NewError("Retries exhausted"), Undefined>>)

\* return [normalizedError, undefined], after the loop
retryExhausted(e) == Resolved(<<e, Undefined>>)

\* a retry that does not wait
retryDelayTimer_nowait(a, delay) == Timer("delay", a, 0)

\* await new Promise((r) => setTimeout(r, delay))
retryDelayTimer(a, delay) == Timer("delay", a, delay)

\* one deadline for the whole call, set by its first attempt
attemptTimer_shared(a, options) == Timer("timeout", 0, timeoutMsOf(options))

\* safeTimeout(fn(), options.timeoutMs): every attempt sets a timer of its own
attemptTimer(a, options) == Timer("timeout", a, timeoutMsOf(options))

\* fn is invoked for a new attempt, waited milliseconds after the attempt before it ended
Started(tr, waited) == Append(tr, [waited |-> waited, how |-> "pending", ran |-> -1, delay |-> -1])

\* attempt a ends, ran milliseconds after fn was invoked; d is the delay then started
Ended(tr, a, how, ran, d) == [tr EXCEPT ![a + 1] = [@ EXCEPT !.how = how, !.ran = ran, !.delay = d]]

\* the catch block of attempt a, entered with the thrown value error; options is the
\* options object of the call, and calls1, timers1
\* and trace1 are the values these variables have when the block is entered
retryCatch(options, a, error, how, calls1, timers1, trace1, ran) ==
  LET ne == normalizeError(error) IN
  /\ clock' = 0
  /\ normalizedError' = IF normalizeThrows(error) THEN normalizedError ELSE ne
  /\ log' = CatchLogged(log, error)
  /\ calls' = calls1
  /\ IF CatchThrows(error)
     THEN /\ result' = Rejected(CatchFailure(error))
          /\ pc' = "done"
          /\ attempt' = a
          /\ timers' = timers1
          /\ trace' = Ended(trace1, a, how, ran, -1)
     ELSE IF attemptsRemain(a, options)
     THEN \E rnd \in RandomSamples :
            LET delay == calculateDelay(a, options, rnd) IN
            /\ timers' = timers1 \cup {retryDelayTimer(a, delay)}
            /\ trace' = Ended(trace1, a, how, ran, delay)
            /\ pc' = "delay"
            /\ attempt' = a
            /\ result' = result
     ELSE \* attempt++ makes attempt > options.retries, which ends the loop
          /\ result' = retryExhausted(ne)
          /\ pc' = "done"
          /\ attempt' = a + 1
          /\ timers' = timers1
          /\ trace' = Ended(trace1, a, how, ran, -1)

\* the body of the loop for attempt a up to its await: fn() is invoked and returns a
\* promise (o is pending) or throws (o is the throw); timers0 are the timers then set
retryAttempt(options, a, o, timers0) ==
  IF o.st = "threw"
  THEN retryCatch(options, a, o.v, "threw", Append(calls, o), timers0, Started(trace, clock), 0)
  ELSE /\ calls' = Append(calls, o)
       /\ timers' = IF timeoutSet(options)
                    THEN timers0 \cup {attemptTimer(a, options)}
                    ELSE timers0
       /\ trace' = Started(trace, clock)
       /\ clock' = 0
       /\ pc' = "await"
       /\ attempt' = a
       /\ UNCHANGED <<log, result, normalizedError>>

\* what an invocation of an asynchronous fn does at once: it returns a promise that is
\* still pending, or it throws before it has made one
FnStarts == {PendingCall, [st |-> "threw", v |-> Str("boom")]}

\* how a call that is no longer awaited settles
LateOutcomes == {[st |-> "resolved", v |-> Str("ok")], [st |-> "rejected", v |-> ErrorObj("E1", "first")]}

\* the call, up to the first await
safeWithRetries(options, o) ==
  /\ op = "none"
  /\ op' = "safeWithRetries"
  /\ opts' = options
  /\ IF loopContinues(0, options)
     THEN retryAttempt(options, 0, o, timers)
     ELSE \* the loop body never runs
          /\ result' = retryExhausted(normalizedError)
          /\ pc' = "done"
          /\ UNCHANGED <<log, calls, attempt, normalizedError, timers, trace, clock>>
  /\ UNCHANGED <<deps, setVars, allVars, subs>>

\* the promise of the current attempt settles before its timeout: the await resumes
retryAwaitSettles(o) ==
  /\ op = "safeWithRetries"
  /\ pc = "await"
  /\ calls[attempt + 1].st = "pending"
  /\ IF o.st = "resolved"
     THEN /\ result' = retryReturn(o.v)
          /\ pc' = "done"
          /\ calls' = [calls EXCEPT ![attempt + 1] = o]
          /\ trace' = Ended(trace, attempt, "resolved", clock, -1)
          /\ clock' = 0
          /\ UNCHANGED <<log, attempt, normalizedError, timers>>
     ELSE retryCatch(opts, attempt, o.v, "rejected", [calls EXCEPT ![attempt + 1] = o], timers, trace, clock)
  /\ UNCHANGED <<deps, setVars, op, opts, allVars, subs>>

\* a timer that ends whatever attempt is awaited when it fires
timerDecides_any(t) == pc = "await"

\* Promise.race([promise, timeout]): the rejection of the timer's promise settles the
\* race of its own attempt only, and only if that race is still undecided
timerDecides(t) == pc = "await" /\ t.attempt = attempt

\* the timer of safeTimeout fires: reject(new Error(...)); the race is lost by the
\* call of fn only if that call is still the one awaited
retryTimeoutFires(t) ==
  /\ op = "safeWithRetries"
  /\ Due(t)
  /\ t.kind = "timeout"
  /\ IF timerDecides(t)
     THEN retryCatch(opts, attempt, TimeoutError(timeoutMsOf(opts)), "timeout", calls, timers \ {t}, trace, clock)
     ELSE /\ timers' = timers \ {t}
          /\ UNCHANGED <<pc, log, result, calls, attempt, normalizedError, trace, clock>>
  /\ UNCHANGED <<deps, setVars, op, opts, allVars, subs>>

\* the timer of the retry delay fires: attempt++ and the next iteration starts
retryDelayElapses(t, o) ==
  /\ op = "safeWithRetries"
  /\ Due(t)
  /\ t.kind = "delay"
  /\ pc = "delay"
  /\ IF loopContinues(attempt + 1, opts)
     THEN retryAttempt(opts, attempt + 1, o, timers \ {t})
     ELSE /\ result' = retryExhausted(normalizedError)
          /\ pc' = "done"
          /\ attempt' = attempt + 1
          /\ timers' = timers \ {t}
          /\ UNCHANGED <<log, calls, normalizedError, trace, clock>>
  /\ UNCHANGED <<deps, setVars, op, opts, allVars, subs>>

\* a call of fn that is no longer awaited (its attempt timed out) settles
abandonedSettles(i, o) ==
  /\ op = "safeWithRetries"
  /\ i \in 1 .. Len(calls)
  /\ calls[i].st = "pending"
  /\ ~(pc = "await" /\ i = attempt + 1)
  /\ calls' = [calls EXCEPT ![i] = o]
  /\ UNCHANGED <<deps, setVars, op, pc, log, result, retryVars, timeVars, allVars, subs>>

\* time passes up to the next timer; a timer fires as soon as it is due
tick ==
  /\ timers # {}
  /\ \A t \in timers : t.left > 0
  /\ LET d == Min({t.left : t \in timers}) IN
       /\ timers' = {[t EXCEPT !.left = @ - d] : t \in timers}
       /\ clock' = clock + d
  /\ UNCHANGED <<deps, setVars, op, pc, log, result, calls, retryVars, allVars, subs>>

(***************************************************************************)
(* safeAll                                                                 *)
(***************************************************************************)
\* a promise the caller hands over is still pending or has already settled
PromiseStates == {PendingCall} \cup Outcomes

\* the arrays of promises the batch operations are called with
PromiseArrays == UNION {[1 .. n -> PromiseStates] : n \in 0 .. MaxItems}

Settled(ps) == {i \in 1 .. Len(ps) : ps[i].st # "pending"}

RECURSIVE InOrder(_)
\* the elements of a set of indices as a sequence, smallest first
InOrder(S) == IF S = {} THEN <<>> ELSE <<Min(S)>> \o InOrder(S \ {Min(S)})

\* an item that is awaited without try and catch
allItem_nocatch(p) ==
  IF p.st = "resolved" THEN Resolved(<<Null, p.v>>) ELSE Rejected(normalizeError(p.v))

\* the value of the async arrow function of safeAll for the settled promise p
allItem(p) ==
  IF p.st = "resolved" THEN Resolved(<<Null, p.v>>)
  ELSE IF CatchThrows(p.v) THEN Rejected(CatchFailure(p.v))
  ELSE Resolved(<<normalizeError(p.v), Undefined>>)

\* Promise.all over the promises its, res being its state so far: it rejects with the
\* first rejection and resolves with the values in index order once all have resolved
promiseAll(res, its) ==
  IF res.st # "pending" THEN res
  ELSE IF \E i \in 1 .. Len(its) : its[i].st = "rejected"
  THEN Rejected((its[CHOOSE i \in 1 .. Len(its) : its[i].st = "rejected"]).x)
  ELSE IF \A i \in 1 .. Len(its) : its[i].st = "resolved"
  THEN Resolved([i \in 1 .. Len(its) |-> its[i].r])
  ELSE Pending

\* the orders in which the promises of the set of indices S can have settled
SettleOrders(S) ==
  {s \in [1 .. Cardinality(S) -> S] : \A i \in S : \E k \in 1 .. Cardinality(S) : s[k] = i}

\* reactions that run newest first
queued_lifo(q, i) == <<i>> \o q

\* a reaction is queued behind the reactions that are queued already
queued(q, i) == Append(q, i)

\* the call: every promise is awaited by its own async function; the reactions of the
\* promises that have already settled, in the order before, are queued in input order
safeAll(ps, before) ==
  /\ op = "none"
  /\ op' = "safeAll"
  /\ promises' = ps
  /\ settled' = before
  /\ items' = [i \in 1 .. Len(ps) |-> Pending]
  /\ jobs' = InOrder(Settled(ps))
  /\ result' = promiseAll(Pending, <<>> \o [i \in 1 .. Len(ps) |-> Pending])
  /\ pc' = IF Len(ps) = 0 THEN "done" ELSE "await"
  /\ UNCHANGED <<deps, setVars, log, calls, retryVars, timeVars, subs>>

\* a promise of the caller settles: the reaction of its await is queued
inputSettles(i, o) ==
  /\ op \in {"safeAll", "safeObservableAll"}
  /\ i \in 1 .. Len(promises)
  /\ promises[i].st = "pending"
  /\ promises' = [promises EXCEPT ![i] = o]
  /\ jobs' = queued(jobs, i)
  /\ settled' = Append(settled, i)
  /\ UNCHANGED <<deps, setVars, op, pc, log, result, calls, retryVars, timeVars, items, subs>>

\* the oldest queued reaction runs: the async function of that item resumes
allItemResumes ==
  /\ op = "safeAll"
  /\ jobs # <<>>
  /\ LET i == Head(jobs)
         p == promises[i]
         its == [items EXCEPT ![i] = allItem(p)] IN
       /\ items' = its
       /\ log' = IF p.st = "rejected" THEN CatchLogged(log, p.v) ELSE log
       /\ result' = promiseAll(result, its)
       /\ pc' = IF promiseAll(result, its).st = "pending" THEN "await" ELSE "done"
       /\ trace' = Append(trace, i)
  /\ jobs' = Tail(jobs)
  /\ UNCHANGED <<deps, setVars, op, calls, opts, attempt, normalizedError, timeVars, promises, settled, subs>>

(***************************************************************************)
(* The subscriber of a stream (rxjs): after complete or error it is        *)
(* stopped and takes no further notification.                              *)
(***************************************************************************)
NewSubscriber == [events |-> <<>>, stopped |-> FALSE]

subscriberNext(s, v) ==
  IF s.stopped THEN s ELSE [s EXCEPT !.events = Append(@, [e |-> "next", v |-> v])]

subscriberComplete(s) ==
  IF s.stopped THEN s
  ELSE [events |-> Append(s.events, [e |-> "complete", v |-> Undefined]), stopped |-> TRUE]

subscriberError(s, x) ==
  IF s.stopped THEN s
  ELSE [events |-> Append(s.events, [e |-> "error", v |-> x]), stopped |-> TRUE]

(***************************************************************************)
(* safeObservable                                                          *)
(***************************************************************************)
\* a value that is emitted without the completion after it
emitOnce_nocomplete(s, v) == subscriberNext(s, v)

\* .then((data) => { subscriber.next(data); subscriber.complete(); }) and the else branch
emitOnce(s, v) == subscriberComplete(subscriberNext(s, v))

\* the call only builds the stream: fn is not invoked
safeObservable ==
  /\ op = "none"
  /\ op' = "safeObservable"
  /\ pc' = "cold"
  /\ UNCHANGED <<deps, setVars, log, result, calls, retryVars, timeVars, allVars, subs>>

\* subscribe(): the function given to new Observable runs; o is what fn() does.  An
\* error thrown out of that function is passed by rxjs to subscriber.error
observableSubscribe(o) ==
  /\ op = "safeObservable"
  /\ Len(subs) < MaxSubs
  /\ calls' = Append(calls, o)
  /\ subs' = Append(subs,
       IF o.st = "returned" THEN emitOnce(NewSubscriber, o.v)
       ELSE IF o.st = "threw"
       THEN subscriberError(NewSubscriber,
              IF CatchThrows(o.v) THEN CatchFailure(o.v) ELSE normalizeError(o.v))
       ELSE NewSubscriber)
  /\ log' = IF o.st = "threw" THEN CatchLogged(log, o.v) ELSE log
  /\ UNCHANGED <<deps, setVars, op, pc, result, retryVars, timeVars, allVars>>

\* the promise fn returned for subscription i settles: the then or the catch callback runs
observableSettles(i, o) ==
  /\ op = "safeObservable"
  /\ i \in 1 .. Len(calls)
  /\ calls[i].st = "pending"
  /\ calls' = [calls EXCEPT ![i] = o]
  /\ subs' = [subs EXCEPT ![i] =
       IF o.st = "resolved" THEN emitOnce(@, o.v)
       ELSE IF CatchThrows(o.v) THEN @
       ELSE subscriberError(@, normalizeError(o.v))]
  /\ log' = IF o.st = "rejected" THEN CatchLogged(log, o.v) ELSE log
  /\ UNCHANGED <<deps, setVars, op, pc, result, retryVars, timeVars, allVars>>

(***************************************************************************)
(* safeObservableAll                                                       *)
(***************************************************************************)
\* an item whose promise is mapped without the catch
observableAllItem_nocatch(p) ==
  IF p.st = "resolved" THEN Resolved(<<Null, p.v>>) ELSE Rejected(normalizeError(p.v))

\* the promise of promise.then(...).catch(...) for the settled promise p
observableAllItem(p) ==
  IF p.st = "resolved" THEN Resolved(<<Null, p.v>>)
  ELSE IF CatchThrows(p.v) THEN Rejected(CatchFailure(p.v))
  ELSE Resolved(<<normalizeError(p.v), Undefined>>)

\* from(promise): a subscriber gets the value and the completion, or the error, of the
\* promise once it has settled
fromPromise(s, res) ==
  IF res.st = "resolved" THEN emitOnce(s, res.r)
  ELSE IF res.st = "rejected" THEN subscriberError(s, res.x)
  ELSE s

\* the call: the reactions are attached and Promise.all is started at once
safeObservableAll(ps, before) ==
  /\ op = "none"
  /\ op' = "safeObservableAll"
  /\ promises' = ps
  /\ settled' = before
  /\ items' = [i \in 1 .. Len(ps) |-> Pending]
  /\ jobs' = InOrder(Settled(ps))
  /\ result' = promiseAll(Pending, <<>> \o [i \in 1 .. Len(ps) |-> Pending])
  /\ pc' = IF Len(ps) = 0 THEN "done" ELSE "await"
  /\ UNCHANGED <<deps, setVars, log, calls, retryVars, timeVars, subs>>

\* the oldest queued reaction runs: the then or the catch callback of that item
observableAllItemResumes ==
  /\ op = "safeObservableAll"
  /\ jobs # <<>>
  /\ LET i == Head(jobs)
         p == promises[i]
         its == [items EXCEPT ![i] = observableAllItem(p)]
         res == promiseAll(result, its) IN
       /\ items' = its
       /\ log' = IF p.st = "rejected" THEN CatchLogged(log, p.v) ELSE log
       /\ result' = res
       /\ pc' = IF res.st = "pending" THEN "await" ELSE "done"
       /\ subs' = IF result.st = "pending"
                  THEN [k \in 1 .. Len(subs) |-> fromPromise(subs[k], res)]
                  ELSE subs
       /\ trace' = Append(trace, i)
  /\ jobs' = Tail(jobs)
  /\ UNCHANGED <<deps, setVars, op, calls, opts, attempt, normalizedError, timeVars, promises, settled>>

\* a stream that keeps nothing for those who subscribe after the promise has settled
subscribeFrom_noreplay(res) == NewSubscriber

\* a new subscriber of from(promise): its reaction is attached to the one promise made
\* in the call, settled or not
subscribeFrom(res) == fromPromise(NewSubscriber, res)

\* subscribe() on the stream of safeObservableAll
observableAllSubscribe ==
  /\ op = "safeObservableAll"
  /\ Len(subs) < MaxSubs
  /\ subs' = Append(subs, subscribeFrom(result))
  /\ UNCHANGED <<deps, setVars, op, pc, log, result, calls, retryVars, timeVars, allVars>>

(***************************************************************************)
(* safeTimeout, called on its own                                          *)
(***************************************************************************)
\* the values of ms safeTimeout is called with
TimeoutMsSet == {0, 2}

\* the promise of Promise.race once the promise with the outcome o has won
raceWonBy(o) == IF o.st = "resolved" THEN Resolved(o.v) ELSE Rejected(o.v)

\* the call: the timer is set and the race starts; a promise that has already settled
\* wins it
safeTimeout(o, ms) ==
  /\ op = "none"
  /\ op' = "safeTimeout"
  /\ promises' = <<o>>
  /\ opts' = [opts EXCEPT !.timeoutMs = {ms}]
  /\ timers' = {Timer("race", 0, ms)}
  /\ result' = IF o.st = "pending" THEN Pending ELSE raceWonBy(o)
  /\ pc' = IF o.st = "pending" THEN "await" ELSE "done"
  /\ trace' = IF o.st = "pending" THEN <<>> ELSE <<"settled">>
  /\ UNCHANGED <<deps, setVars, log, calls, attempt, normalizedError, clock, jobs, items, settled,
                 subs>>

\* the promise given to safeTimeout settles
racePromiseSettles(o) ==
  /\ op = "safeTimeout"
  /\ promises[1].st = "pending"
  /\ promises' = <<o>>
  /\ result' = IF result.st = "pending" THEN raceWonBy(o) ELSE result
  /\ pc' = "done"
  /\ trace' = Append(trace, "settled")
  /\ UNCHANGED <<deps, setVars, op, log, calls, opts, attempt, normalizedError, timeVars, jobs, items,
                 settled, subs>>

\* the timer of safeTimeout fires: reject(new Error(`Timeout after ${ms}ms`))
raceTimerFires(t) ==
  /\ op = "safeTimeout"
  /\ Due(t)
  /\ timers' = timers \ {t}
  /\ result' = IF result.st = "pending" THEN Rejected(TimeoutError(timeoutMsOf(opts))) ELSE result
  /\ pc' = "done"
  /\ trace' = Append(trace, "fired")
  /\ UNCHANGED <<deps, setVars, op, log, calls, opts, attempt, normalizedError, clock, allVars, subs>>

(***************************************************************************)
(* Two operation sets.  Each call of createSafeUtils makes its own closure *)
(* over enableLogErrors and logger; the caller uses one set or the other   *)
(* between two synchronous stretches, and may change the options objects   *)
(* it passed.                                                              *)
(***************************************************************************)
\* the options objects of the callers: enableLogErrors, a logger function ("returns" and
\* "tally" are two loggers that return) and logErrors, the option of the README
OptionsObjects ==
  [enableLogErrors : {"absent", "true", "false"}, logger : {"returns", "tally"},
   logErrors : {"absent", "true", "false"}]

Flip(b) == IF b = "false" THEN "true" ELSE "false"

\* the caller assigns other values to the properties of an options object
Changed(d) ==
  [enableLogErrors |-> Flip(d.enableLogErrors),
   logger |-> IF d.logger = "tally" THEN "returns" ELSE "tally",
   logErrors |-> Flip(d.logErrors)]

\* a set that looks its options up in the object whenever it needs them
closureAfter_byreference(captured, changed) == changed

\* const { enableLogErrors = true, logger = console.error } = deps: the two values are
\* copied when the set is created, and the set keeps no reference to the object
closureAfter(captured, changed) == captured

\* the variables of the set the caller is using
ThisSet ==
  [deps |-> deps, op |-> op, pc |-> pc, log |-> log, result |-> result, calls |-> calls,
   opts |-> opts, attempt |-> attempt, normalizedError |-> normalizedError, timers |-> timers,
   clock |-> clock, trace |-> trace, promises |-> promises, jobs |-> jobs, items |-> items,
   settled |-> settled, subs |-> subs]

InitTwoSets ==
  /\ created \in [1 .. 2 -> OptionsObjects]
  /\ given = created
  /\ cur = 1
  /\ deps = created[1]
  /\ op = "none"
  /\ pc = "idle"
  /\ log = <<>>
  /\ result = Pending
  /\ calls = <<>>
  /\ opts = NoOptions
  /\ attempt = 0
  /\ normalizedError = Null
  /\ timers = {}
  /\ clock = 0
  /\ trace = <<>>
  /\ promises = <<>>
  /\ jobs = <<>>
  /\ items = <<>>
  /\ settled = <<>>
  /\ subs = <<>>
  /\ other = NewSet(created[2])

\* the caller turns to the other set: the closures and the calls in flight of the two
\* sets are apart, so that nothing but the roles changes
switchSet ==
  /\ cur' = 3 - cur
  /\ other' = ThisSet
  /\ deps' = other.deps
  /\ op' = other.op
  /\ pc' = other.pc
  /\ log' = other.log
  /\ result' = other.result
  /\ calls' = other.calls
  /\ opts' = other.opts
  /\ attempt' = other.attempt
  /\ normalizedError' = other.normalizedError
  /\ timers' = other.timers
  /\ clock' = other.clock
  /\ trace' = other.trace
  /\ promises' = other.promises
  /\ jobs' = other.jobs
  /\ items' = other.items
  /\ settled' = other.settled
  /\ subs' = other.subs
  /\ UNCHANGED <<given, created>>

\* the caller changes the options object set i was created from
optionsChanged(i) ==
  /\ given' = [given EXCEPT ![i] = Changed(@)]
  /\ deps' = IF i = cur THEN closureAfter(deps, Changed(given[i])) ELSE deps
  /\ other' = IF i = cur THEN other
              ELSE [other EXCEPT !.deps = closureAfter(@, Changed(given[i]))]
  /\ UNCHANGED <<op, pc, log, result, calls, retryVars, timeVars, allVars, subs, cur, created>>

NextTwoSets ==
  \/ \E o \in SyncOutcomes : safe(o)
  \/ \E o \in FnStarts : safeAsync(o)
  \/ \E o \in Outcomes : safeAsyncSettle(o)
  \/ switchSet
  \/ \E i \in 1 .. 2 : optionsChanged(i)

SpecTwoSets == InitTwoSets /\ [][NextTwoSets]_vars

(***************************************************************************)
(* The type guards                                                         *)
(***************************************************************************)
\* result[0] === null
isSuccess(r) == r[1] = Null

\* a failure that is told by the empty value slot
isFailure_byvalue(r) == r[2] = Undefined

\* result[0] !== null
isFailure(r) == r[1] # Null

Next ==
  \/ \E o \in SyncOutcomes : safe(o)
  \/ \E o \in FnStarts : safeAsync(o)
  \/ \E o \in Outcomes : safeAsyncSettle(o)
  \/ \E options \in RetryOptionsSet, o \in FnStarts : safeWithRetries(options, o)
  \/ \E o \in Outcomes : retryAwaitSettles(o)
  \/ \E t \in timers : retryTimeoutFires(t)
  \/ \E t \in timers, o \in FnStarts : retryDelayElapses(t, o)
  \/ \E i \in 1 .. MaxRetries + 1, o \in LateOutcomes : abandonedSettles(i, o)
  \/ tick
  \/ \E ps \in PromiseArrays : \E before \in SettleOrders(Settled(ps)) : safeAll(ps, before)
  \/ \E i \in 1 .. MaxItems, o \in Outcomes : inputSettles(i, o)
  \/ allItemResumes
  \/ safeObservable
  \/ \E o \in SyncOutcomes \cup {PendingCall} : observableSubscribe(o)
  \/ \E i \in 1 .. MaxSubs, o \in Outcomes : observableSettles(i, o)
  \/ \E ps \in PromiseArrays : \E before \in SettleOrders(Settled(ps)) : safeObservableAll(ps, before)
  \/ observableAllItemResumes
  \/ observableAllSubscribe
  \/ \E o \in PromiseStates, ms \in TimeoutMsSet : safeTimeout(o, ms)
  \/ \E o \in Outcomes : racePromiseSettles(o)
  \/ \E t \in timers : raceTimerFires(t)

Spec == InitWith(DepsOK) /\ [][Next]_vars

SpecAnyLogger == InitWith(DepsAny) /\ [][Next]_vars

(***************************************************************************)
(* The same operations when the caller's code may throw or reject with any *)
(* value at all, an object without a conversion to a string among them.    *)
(***************************************************************************)
\* what a function may throw: an Error, a string, null, undefined, a plain object, an
\* object that String() cannot convert
AnyThrown == Thrown \cup {Null, Undefined, Obj("o1"), Bare("o2")}

\* the rejections and throws drawn for the asynchronous operations
ThrownBare == {ErrorObj("E1", "first"), Bare("o2")}

SyncOutcomesAny == [st : {"returned"}, v : Values] \cup [st : {"threw"}, v : AnyThrown]
OutcomesBare == [st : {"resolved"}, v : Values] \cup [st : {"rejected"}, v : ThrownBare]
FnStartsBare == {PendingCall, [st |-> "threw", v |-> Bare("o2")]}
PromiseArraysBare == UNION {[1 .. n -> {PendingCall} \cup OutcomesBare] : n \in 0 .. MaxItems}

NextAnyThrown ==
  \/ \E o \in SyncOutcomesAny : safe(o)
  \/ \E o \in FnStartsBare : safeAsync(o)
  \/ \E o \in OutcomesBare : safeAsyncSettle(o)
  \/ \E options \in RetryOptionsSet, o \in FnStartsBare : safeWithRetries(options, o)
  \/ \E o \in OutcomesBare : retryAwaitSettles(o)
  \/ \E t \in timers : retryTimeoutFires(t)
  \/ \E t \in timers, o \in FnStartsBare : retryDelayElapses(t, o)
  \/ \E i \in 1 .. MaxRetries + 1, o \in LateOutcomes : abandonedSettles(i, o)
  \/ tick
  \/ \E ps \in PromiseArraysBare : \E before \in SettleOrders(Settled(ps)) : safeAll(ps, before)
  \/ \E i \in 1 .. MaxItems, o \in OutcomesBare : inputSettles(i, o)
  \/ allItemResumes
  \/ safeObservable
  \/ \E o \in SyncOutcomesAny \cup {PendingCall} : observableSubscribe(o)
  \/ \E i \in 1 .. MaxSubs, o \in OutcomesBare : observableSettles(i, o)
  \/ \E ps \in PromiseArraysBare : \E before \in SettleOrders(Settled(ps)) : safeObservableAll(ps, before)
  \/ observableAllItemResumes
  \/ observableAllSubscribe
  \/ \E o \in {PendingCall} \cup OutcomesBare, ms \in TimeoutMsSet : safeTimeout(o, ms)
  \/ \E o \in OutcomesBare : racePromiseSettles(o)
  \/ \E t \in timers : raceTimerFires(t)

SpecAnyThrown == InitWith(DepsOK) /\ [][NextAnyThrown]_vars
(***************************************************************************)
(* Properties of safeWithRetries                                           *)
(***************************************************************************)
Retrying == op = "safeWithRetries"

(***************************************************************************)
(* safeWithRetries under fair timers: the event loop lets time pass and    *)
(* runs the callback of a timer once the timer is due.  Whether and when   *)
(* a promise returned by fn settles is up to the caller's code.            *)
(***************************************************************************)
NextRetries ==
  \/ \E options \in RetryOptionsSet, o \in FnStarts : safeWithRetries(options, o)
  \/ \E o \in Outcomes : retryAwaitSettles(o)
  \/ \E t \in timers : retryTimeoutFires(t)
  \/ \E t \in timers, o \in FnStarts : retryDelayElapses(t, o)
  \/ \E i \in 1 .. MaxRetries + 1, o \in LateOutcomes : abandonedSettles(i, o)
  \/ tick

\* the steps of the event loop that belong to the timers
TimersRun ==
  \/ tick
  \/ \E t \in timers : retryTimeoutFires(t)
  \/ \E t \in timers, o \in FnStarts : retryDelayElapses(t, o)

\* the awaited promise of fn settles
FnSettles == \E o \in Outcomes : retryAwaitSettles(o)

\* the operation set made from the default options
DepsDefault == [enableLogErrors : {"absent"}, logger : {"returns"}]

SpecFairTimers == InitWith(DepsDefault) /\ [][NextRetries]_vars /\ WF_vars(TimersRun)

Failures == {"rejected", "threw", "timeout"}

\* every attempt made so far has ended in a failure
AllFailed == \A i \in 1 .. Len(trace) : trace[i].how \in Failures

IsFailureResult(r) == Len(r) = 2 /\ IsError(r[1]) /\ r[2] = Undefined

\* C1: with retries >= 0, fn is never invoked more than retries + 1 times, and a call
\* all of whose attempts failed (rejected, threw or timed out) has invoked fn exactly
\* retries + 1 times when it settles, and it resolves to a failure Result
C1_AllFailInvokesRetriesPlusOne ==
  (Retrying /\ opts.retries >= 0) =>
    /\ Len(calls) <= opts.retries + 1
    /\ (pc = "done" /\ AllFailed) =>
         /\ Len(calls) = opts.retries + 1
         /\ result.st = "resolved"
         /\ IsFailureResult(result.r)

C1_Witness ==
  /\ Retrying /\ pc = "done" /\ opts.retries = 2 /\ AllFailed
  /\ Len(calls) = 3
  /\ \E i \in 1 .. 3 : trace[i].how = "timeout"
  /\ \E i \in 1 .. 3 : trace[i].how = "rejected"
  /\ IsFailureResult(result.r)

\* some attempt has succeeded: the promise awaited for it resolved
Succeeded == Retrying /\ \E i \in 1 .. Len(trace) : trace[i].how = "resolved"

DelayTimers == {t \in timers : t.kind = "delay"}

\* C2: as soon as attempt k succeeds the call is resolved to (null, the value attempt k
\* resolved with) after exactly k + 1 invocations of fn, and from then on fn is not
\* invoked again and no retry delay is started
C2_SuccessEndsCall ==
  /\ [](Succeeded =>
          /\ pc = "done"
          /\ trace[attempt + 1].how = "resolved"
          /\ Len(calls) = attempt + 1
          /\ calls[attempt + 1].st = "resolved"
          /\ result = Resolved(<<Null, calls[attempt + 1].v>>)
          /\ DelayTimers = {})
  /\ [][Succeeded => (Len(calls') = Len(calls) /\ DelayTimers' = {} /\ result' = result)]_vars

C2_Witness ==
  /\ Succeeded /\ attempt = 1 /\ opts.retries = 2 /\ Len(calls) = 2
  /\ trace[1].how = "timeout" /\ calls[1].st = "resolved"
  /\ result.r = <<Null, Str("ok")>>

\* the delay the specification gives for the failure of the attempt with index n
BackoffMs(n) ==
  (IF opts.initialDelayMs = {} THEN 100 ELSE CHOOSE d \in opts.initialDelayMs : TRUE) * (2 ^ n)

\* C3: without jitter, attempt n + 1 invokes fn exactly initialDelayMs * 2^n ms after
\* attempt n failed (initialDelayMs is 100 by default), and no delay is started after
\* the failure of the last attempt, the one with index retries
C3_ExponentialBackoff ==
  (Retrying /\ opts.jitter # "true") =>
    \A i \in 1 .. Len(trace) :
      /\ i > 1 => trace[i].waited = BackoffMs(i - 2)
      /\ (trace[i].how \in Failures /\ i - 1 < opts.retries) => trace[i].delay = BackoffMs(i - 1)
      /\ (trace[i].how \in Failures /\ i - 1 = opts.retries) =>
           /\ trace[i].delay = -1
           /\ pc = "done"
           /\ \A t \in DelayTimers : t.attempt # i - 1

C3_Witness ==
  /\ Retrying /\ pc = "done" /\ opts.jitter = "absent" /\ opts.initialDelayMs = {}
  /\ opts.retries = 2 /\ Len(trace) = 3 /\ AllFailed
  /\ trace[2].waited = 100 /\ trace[3].waited = 200 /\ trace[3].delay = -1
(***************************************************************************)
(* Properties of the Results and of the propagation of failures            *)
(***************************************************************************)
\* the logging is on: enableLogErrors was not given as false
LogEnabled == deps.enableLogErrors # "false"

\* e is the error the specification gives for the thrown or rejected value x
NormalizedOf(x, e) ==
  /\ IsError(e)
  /\ x.t = "Error" => e = x
  /\ x.t = "string" => (e.id = "new" /\ e.v = x.v)

\* r is the Result the specification gives for the settled computation c
ExpectedResult(c, r) ==
  /\ Len(r) = 2
  /\ c.st \in {"returned", "resolved"} => r = <<Null, c.v>>
  /\ c.st \in {"threw", "rejected"} => (NormalizedOf(c.v, r[1]) /\ r[2] = Undefined)

ErrorEvents(s) == {n \in 1 .. Len(s.events) : s.events[n].e = "error"}

\* a failure has left an operation otherwise than as data
Escaped ==
  \/ op = "safe" /\ result.st = "threw"
  \/ op \in {"safeAsync", "safeAll", "safeWithRetries"} /\ result.st = "rejected"
  \/ op = "safeObservableAll" /\
       (result.st = "rejected" \/ \E k \in 1 .. Len(subs) : ErrorEvents(subs[k]) # {})

\* C4: whatever the function, the promises and the logger, safe never throws,
\* the promises of safeAsync, safeAll and safeWithRetries never reject and the stream of
\* safeObservableAll never errors
C4_NeverEscapes == ~Escaped

\* C4 for the thrown values that String() converts: a failure escapes only through a
\* logger that itself throws while the logging is on; with a logger that returns, or
\* with the logging off, none escapes
C4_NoEscapeUnlessLoggerThrows == Escaped => (deps.logger = "throws" /\ LogEnabled)

C4_Witness ==
  /\ deps.logger = "throws" /\ deps.enableLogErrors = "false"
  /\ op = "safeAsync" /\ calls[1].st = "rejected"
  /\ result.st = "resolved" /\ IsFailureResult(result.r)

\* r has exactly one meaningful slot: null and the output of one of the computations cs
\* that succeeded, or an Error and undefined
OneSlot(r, cs) ==
  /\ Len(r) = 2
  /\ \/ r[1] = Null /\ \E c \in cs : c.st \in {"returned", "resolved"} /\ c.v = r[2]
     \/ IsError(r[1]) /\ r[2] = Undefined

\* C5: every Result of safe, safeAsync and safeWithRetries and every item of safeAll and
\* safeObservableAll is (null, the output of a computation that succeeded) or
\* (an Error, undefined)
C5_ExactlyOneSlot ==
  /\ (op = "safe" /\ result.st = "returned") => OneSlot(result.r, {calls[1]})
  /\ (op = "safeAsync" /\ result.st = "resolved") => OneSlot(result.r, {calls[1]})
  /\ (op = "safeWithRetries" /\ result.st = "resolved") =>
       OneSlot(result.r, {calls[i] : i \in 1 .. Len(calls)})
  /\ op \in {"safeAll", "safeObservableAll"} =>
       \A i \in 1 .. Len(items) : items[i].st = "resolved" => OneSlot(items[i].r, {promises[i]})

\* C6: safeAll resolves, only once every promise has settled, to as many Results as
\* there are promises, the Result at index i being the one of promise i alone
C6_SafeAllSettlesAll ==
  op = "safeAll" =>
    /\ Len(items) = Len(promises)
    /\ result.st # "rejected"
    /\ (\E i \in 1 .. Len(promises) : promises[i].st = "pending") => result.st = "pending"
    /\ \A i \in 1 .. Len(items) :
         /\ items[i].st # "rejected"
         /\ items[i].st = "resolved" =>
              (promises[i].st # "pending" /\ ExpectedResult(promises[i], items[i].r))
    /\ result.st = "resolved" =>
         /\ Len(result.r) = Len(promises)
         /\ \A i \in 1 .. Len(promises) : ExpectedResult(promises[i], result.r[i])

C6_Witness ==
  /\ op = "safeAll" /\ Len(promises) = 2 /\ trace = <<2, 1>>
  /\ promises[1].st = "rejected" /\ promises[2].st = "resolved"
  /\ result.st = "resolved" /\ IsError(result.r[1][1]) /\ result.r[2] = <<Null, Str("ok")>>

\* C7: fn is invoked once per subscription of the stream of safeObservable and not
\* before; a subscriber gets nothing while the promise is pending, then either the one
\* value and the completion, or the normalized error alone
C7_ObservableOncePerSubscription ==
  op = "safeObservable" =>
    /\ Len(calls) = Len(subs)
    /\ \A i \in 1 .. Len(subs) :
         LET ev == subs[i].events
             c == calls[i] IN
         /\ c.st = "pending" => ev = <<>>
         /\ c.st \in {"returned", "resolved"} =>
              ev = <<[e |-> "next", v |-> c.v], [e |-> "complete", v |-> Undefined]>>
         /\ c.st \in {"threw", "rejected"} =>
              (Len(ev) = 1 /\ ev[1].e = "error" /\ NormalizedOf(c.v, ev[1].v))

C7_Witness ==
  /\ op = "safeObservable" /\ Len(subs) = 2 /\ Len(calls) = 2
  /\ calls[1].st = "resolved" /\ Len(subs[1].events) = 2
  /\ calls[2].st = "rejected" /\ ErrorEvents(subs[2]) = {1}

\* C8: a subscriber of the stream of safeObservableAll gets nothing until every promise
\* has settled and then one item, the Results in input order, and the completion; the
\* stream never errors
C8_ObservableAllNeverErrors ==
  op = "safeObservableAll" =>
    /\ result.st # "rejected"
    /\ \A k \in 1 .. Len(subs) :
         LET ev == subs[k].events IN
         /\ ErrorEvents(subs[k]) = {}
         /\ result.st = "pending" => ev = <<>>
         /\ result.st = "resolved" =>
              /\ Len(ev) = 2 /\ ev[1].e = "next" /\ ev[2].e = "complete"
              /\ Len(ev[1].v) = Len(promises)
              /\ \A i \in 1 .. Len(promises) : ExpectedResult(promises[i], ev[1].v[i])

C8_Witness ==
  /\ op = "safeObservableAll" /\ Len(subs) = 2 /\ Len(promises) = 2
  /\ promises[1].st = "rejected" /\ promises[2].st = "rejected"
  /\ \A k \in 1 .. 2 : Len(subs[k].events) = 2 /\ IsError(subs[k].events[1].v[1][1])

FailedItems == {i \in 1 .. Len(items) : items[i].st = "resolved" /\ items[i].r[1] # Null}

FailedSubs == {i \in 1 .. Len(subs) : ErrorEvents(subs[i]) # {}}

FailedAttempts == {i \in 1 .. Len(trace) : trace[i].how \in Failures}

InLog(e) == \E k \in 1 .. Len(log) : log[k] = e

\* C9: with the logging off the logger is never called; with it on (the default) the
\* logger has been called once per failure produced so far and with the error that is
\* returned or emitted, in every state in which that failure can be seen, and no
\* success has called it
C9_LoggedOncePerFailure ==
  /\ ~LogEnabled => log = <<>>
  /\ LogEnabled =>
       /\ op = "safe" => log = (IF calls[1].st = "threw" THEN <<result.r[1]>> ELSE <<>>)
       /\ op = "safeAsync" =>
            log = (IF result.st = "resolved" /\ calls[1].st # "resolved" THEN <<result.r[1]>> ELSE <<>>)
       /\ op \in {"safeAll", "safeObservableAll"} =>
            /\ Len(log) = Cardinality(FailedItems)
            /\ \A i \in FailedItems : InLog(items[i].r[1])
       /\ op = "safeObservable" =>
            /\ Len(log) = Cardinality(FailedSubs)
            /\ \A i \in FailedSubs : InLog(subs[i].events[1].v)
       /\ op = "safeWithRetries" =>
            /\ Len(log) = Cardinality(FailedAttempts)
            /\ (result.st = "resolved" /\ result.r[1] # Null) => log[Len(log)] = result.r[1]

C9_Witness ==
  /\ deps.enableLogErrors = "absent" /\ op = "safeAll" /\ result.st = "resolved"
  /\ Len(promises) = 2 /\ result.r[1][1] = Null /\ IsError(result.r[2][1])
  /\ log = <<result.r[2][1]>>

\* C10: the promise of safeTimeout takes the outcome of whichever came first: of the
\* promise if it settled before the timer fired, and the later firing changes nothing;
\* the rejection with the Error 'Timeout after {ms}ms' if the timer fired first
C10_TimeoutRace ==
  op = "safeTimeout" =>
    /\ trace = <<>> => result.st = "pending"
    /\ (trace # <<>> /\ trace[1] = "settled") =>
         /\ promises[1].st = "resolved" => result = Resolved(promises[1].v)
         /\ promises[1].st = "rejected" => result = Rejected(promises[1].v)
    /\ (trace # <<>> /\ trace[1] = "fired") =>
         /\ result.st = "rejected"
         /\ IsError(result.x)
         /\ opts.timeoutMs = {2} => result.x.v = "Timeout after 2ms"
         /\ opts.timeoutMs = {0} => result.x.v = "Timeout after 0ms"

C10_Witness ==
  /\ op = "safeTimeout" /\ trace = <<"settled", "fired">> /\ opts.timeoutMs = {2}
  /\ result = Resolved(Str("ok"))
(***************************************************************************)
(* Properties of the errors and of the logging of safeWithRetries          *)
(***************************************************************************)
\* e is the error the specification gives for the failure of the attempt recorded at
\* position i of the trace: the timeout error, or the normalized thrown value
AttemptError(i, e) ==
  /\ IsError(e)
  /\ trace[i].how = "timeout" =>
       (e.id = "new" /\ (opts.timeoutMs = {2} => e.v = "Timeout after 2ms"))
  /\ trace[i].how \in {"rejected", "threw"} => NormalizedOf(calls[i].v, e)

\* C11: a call with retries >= 0 all of whose attempts failed resolves to the error of
\* its last attempt, the one with index retries (the normalized rejection or throw of
\* that attempt, or its timeout error), and undefined
C11_LastAttemptError ==
  (Retrying /\ opts.retries >= 0 /\ pc = "done" /\ AllFailed) =>
    /\ Len(trace) = opts.retries + 1
    /\ result.st = "resolved"
    /\ Len(result.r) = 2
    /\ AttemptError(opts.retries + 1, result.r[1])
    /\ result.r[2] = Undefined

C11_Witness ==
  /\ Retrying /\ pc = "done" /\ opts.retries = 2 /\ AllFailed
  /\ trace[1].how = "rejected" /\ calls[1].v = ErrorObj("E1", "first")
  /\ trace[2].how = "threw"
  /\ trace[3].how = "timeout"
  /\ result.r[1].v = "Timeout after 2ms" /\ result.r[1] # calls[1].v

\* C12: with the logging on, the logger has been called once per failed attempt, the
\* k-th call with the error of the k-th attempt; the call for an attempt has been made
\* when the delay after that attempt is running and before fn is invoked for the next
\* attempt; a call that returns after a success at attempt k has logged k errors, one
\* all of whose attempts failed has logged retries + 1
C12_EveryFailedAttemptLogged ==
  /\ []((Retrying /\ LogEnabled) =>
          /\ Len(log) = Cardinality(FailedAttempts)
          /\ \A i \in FailedAttempts : i <= Len(log) /\ AttemptError(i, log[i])
          /\ Len(log) >= Len(calls) - 1
          /\ \A t \in DelayTimers : Len(log) = t.attempt + 1
          /\ (pc = "done" /\ Succeeded) => Len(log) = attempt
          /\ (pc = "done" /\ AllFailed /\ opts.retries >= 0) => Len(log) = opts.retries + 1)
  /\ [][(Retrying /\ LogEnabled /\ Len(calls') > Len(calls)) => Len(log) = Len(calls)]_vars

C12_Witness ==
  /\ Retrying /\ LogEnabled /\ pc = "done" /\ opts.retries = 2 /\ Succeeded /\ attempt = 2
  /\ trace[1].how = "rejected" /\ trace[2].how = "timeout"
  /\ Len(log) = 2 /\ log[1] = ErrorObj("E1", "first") /\ log[2].v = "Timeout after 2ms"

\* C13: with jitter true the delay started after the failure of attempt n is at least 0
\* and less than initialDelayMs * 2^n, and attempt n + 1 invokes fn when that delay has
\* passed, hence less than initialDelayMs * 2^n ms after the failure; with jitter false
\* or absent the delay is initialDelayMs * 2^n
C13_JitterBelowBackoff ==
  Retrying =>
    \A i \in 1 .. Len(trace) :
      /\ (trace[i].how \in Failures /\ i - 1 < opts.retries) =>
           IF opts.jitter = "true"
           THEN 0 <= trace[i].delay /\ trace[i].delay < BackoffMs(i - 1)
           ELSE trace[i].delay = BackoffMs(i - 1)
      /\ i > 1 =>
           /\ trace[i].waited = trace[i - 1].delay
           /\ opts.jitter = "true" => (0 <= trace[i].waited /\ trace[i].waited < BackoffMs(i - 2))

C13_Witness ==
  /\ Retrying /\ opts.jitter = "true" /\ opts.initialDelayMs = {} /\ opts.retries = 2
  /\ Len(trace) = 3
  /\ trace[1].delay = 90 /\ trace[2].waited = 90
  /\ trace[2].delay = 0 /\ trace[3].waited = 0
(***************************************************************************)
(* Properties of the type guards and of normalizeError                     *)
(***************************************************************************)
\* the Results of the specification: (null, a value) and (an Error, undefined)
ValidResults ==
  {<<Null, v>> : v \in Values} \cup
  {<<e, Undefined>> : e \in {ErrorObj("E1", "first"), ErrorObj("new", "boom")}}

\* the guards give r the arm its error slot tells, and exactly one arm
GuardsAgree(r) ==
  /\ isSuccess(r) <=> r[1] = Null
  /\ isFailure(r) <=> IsError(r[1])
  /\ isSuccess(r) <=> ~isFailure(r)

\* C14: isSuccess holds of a Result exactly when its error slot is null, isFailure
\* exactly when it is an Error, and so exactly one of them holds, of every valid Result
\* and of every Result safe, safeAsync and safeWithRetries produce; the Result of safe
\* and of safeAsync is a success exactly when the computation succeeded
C14_GuardsPartition ==
  /\ \A r \in ValidResults : GuardsAgree(r)
  /\ (op \in {"safe", "safeAsync", "safeWithRetries"} /\ result.st \in {"returned", "resolved"}) =>
       GuardsAgree(result.r)
  /\ (op \in {"safe", "safeAsync"} /\ result.st \in {"returned", "resolved"}) =>
       /\ isSuccess(result.r) <=> calls[1].st \in {"returned", "resolved"}
       /\ isFailure(result.r) <=> calls[1].st \in {"threw", "rejected"}

C14_Witness ==
  /\ op = "safeAsync" /\ calls[1] = [st |-> "resolved", v |-> Undefined]
  /\ result.st = "resolved" /\ result.r = <<Null, Undefined>>
  /\ isSuccess(result.r) /\ ~isFailure(result.r)

\* e is what the specification says normalizeError makes of x: x itself when x is an
\* Error, and otherwise a new Error whose message is the string form of x
NormalizedImage(x, e) ==
  /\ IsError(e)
  /\ IsError(x) => e = x
  /\ ~IsError(x) => e.id = "new"
  /\ x.t = "string" => e.v = x.v
  /\ x.t = "null" => e.v = "null"
  /\ x.t = "undefined" => e.v = "undefined"
  /\ x.t \in {"object", "bare"} => e.v = "[object Object]"

\* the computations that failed, each with the error slot the operation produced for it
FailuresProduced ==
  IF op \in {"safe", "safeAsync"}
  THEN {<<calls[i].v, result>> : i \in {j \in {1} : calls[j].st \in {"threw", "rejected"}}}
  ELSE IF op \in {"safeAll", "safeObservableAll"}
  THEN {<<promises[i].v, items[i]>> : i \in {j \in 1 .. Len(items) :
          promises[j].st = "rejected" /\ items[j].st # "pending"}}
  ELSE {}

\* C15: normalizeError never fails and the error slot of a Result is the image of the
\* thrown or rejected value: whatever a function throws or a promise rejects with, safe
\* returns, and safeAsync and the items of safeAll and safeObservableAll resolve to,
\* (the image of that value, undefined)
C15_NormalizeErrorTotal ==
  \A f \in FailuresProduced :
    /\ f[2].st \in {"returned", "resolved"}
    /\ Len(f[2].r) = 2
    /\ NormalizedImage(f[1], f[2].r[1])
    /\ f[2].r[2] = Undefined
(***************************************************************************)
(* Properties of the operation sets and of their options                   *)
(***************************************************************************)
\* the variables of set i
SetOf(i) == IF i = cur THEN ThisSet ELSE other

\* the set with the variables s, created from the options c, has the pair it was created
\* with, and its one call of safe or safeAsync has the Result and the logger calls that
\* its own options and its own function give
SetBehaves(c, s) ==
  /\ s.deps.enableLogErrors = c.enableLogErrors
  /\ s.deps.logger = c.logger
  /\ s.op = "none" => (s.log = <<>> /\ s.result = Pending)
  /\ s.op \in {"safe", "safeAsync"} =>
       /\ s.result.st \notin {"threw", "rejected"}
       /\ s.calls[1].st = "pending" => (s.log = <<>> /\ s.result = Pending)
       /\ s.calls[1].st # "pending" =>
            /\ ExpectedResult(s.calls[1], s.result.r)
            /\ s.log = IF s.calls[1].st \in {"threw", "rejected"} /\ c.enableLogErrors # "false"
                       THEN <<s.result.r[1]>> ELSE <<>>

\* C16: each of two operation sets keeps the enableLogErrors and logger it was created
\* with, whatever is done to the options objects afterwards, and behaves as its own
\* options and inputs tell; two sets created from identical options that were given the
\* same call with the same outcome have equal Results and equal logger calls; a step
\* of one set changes neither the call, the Result nor the logger calls of the other
C16_SetsEquivalentAndIndependent ==
  /\ [](\A i \in 1 .. 2 : SetBehaves(created[i], SetOf(i)))
  /\ []((/\ created[1] = created[2]
          /\ SetOf(1).op = SetOf(2).op
          /\ SetOf(1).calls = SetOf(2).calls) =>
            (SetOf(1).result = SetOf(2).result /\ SetOf(1).log = SetOf(2).log))
  /\ [][cur' = cur =>
          (other'.calls = other.calls /\ other'.result = other.result /\ other'.log = other.log)]_vars

C16_Witness ==
  /\ created[1] = created[2] /\ created[1].enableLogErrors = "absent"
  /\ given[1].enableLogErrors = "false" /\ given[2] = created[2]
  /\ op = "safeAsync" /\ other.op = "safeAsync"
  /\ calls = <<[st |-> "rejected", v |-> Str("boom")]>> /\ other.calls = calls
  /\ result = other.result /\ IsFailureResult(result.r)
  /\ log = <<result.r[1]>> /\ other.log = log

\* C17: a set created from an options object with a logger and logErrors, and without
\* enableLogErrors, does not call the logger for a failure when logErrors is false, and
\* calls it when logErrors is true
C17_LogErrorsControlsLogging ==
  \A i \in 1 .. 2 :
    LET s == SetOf(i)
        c == created[i] IN
    (/\ c.enableLogErrors = "absent"
     /\ s.op \in {"safe", "safeAsync"}
     /\ s.calls[1].st \in {"threw", "rejected"}) =>
       /\ c.logErrors = "false" => s.log = <<>>
       /\ c.logErrors = "true" => s.log # <<>>
(***************************************************************************)
(* Properties of the order of the attempts and of their timeouts           *)
(***************************************************************************)
\* C18: fn is invoked for attempt n + 1 only by the step in which the delay timer of
\* attempt n fires, when attempt n has its outcome, a failure, and the whole delay
\* computed for it has passed since then; while an attempt is undecided no delay runs,
\* and while a delay runs the attempt before it is decided and no later one has begun
C18_AttemptsSequential ==
  /\ [](Retrying =>
          /\ Len(trace) = Len(calls)
          /\ \A i \in 1 .. Len(trace) - 1 : trace[i].how \in Failures
          /\ pc = "await" => (Len(calls) = attempt + 1 /\ trace[attempt + 1].how = "pending" /\ DelayTimers = {})
          /\ pc = "delay" =>
               /\ Len(calls) = attempt + 1
               /\ trace[attempt + 1].how \in Failures
               /\ \E t \in DelayTimers :
                    /\ DelayTimers = {t}
                    /\ t.attempt = attempt
                    /\ clock + t.left = trace[attempt + 1].delay)
  /\ [][(Retrying /\ Len(calls') > Len(calls)) =>
          /\ Len(calls') = Len(calls) + 1
          /\ pc = "delay"
          /\ trace[Len(calls)].how \in Failures
          /\ clock = trace[Len(calls)].delay
          /\ \E t \in DelayTimers : t.attempt = Len(calls) - 1 /\ t.left = 0
          /\ \A t \in DelayTimers' : t.attempt = Len(calls)]_vars

C18_Witness ==
  /\ Retrying /\ pc = "await" /\ opts.retries = 2 /\ opts.jitter = "absent" /\ opts.initialDelayMs = {3}
  /\ Len(calls) = 3 /\ attempt = 2
  /\ trace[1].how = "timeout" /\ trace[1].delay = 3
  /\ trace[2].how = "rejected" /\ trace[2].waited = 3 /\ trace[2].delay = 6
  /\ trace[3].how = "pending" /\ trace[3].waited = 6

\* timeoutMs is given and is a positive number, as the specification asks
TimeoutPositive == opts.timeoutMs # {} /\ \A n \in opts.timeoutMs : n > 0

TimeoutMs == CHOOSE n \in opts.timeoutMs : TRUE

\* C19: with a positive timeoutMs every attempt that awaits its call has a timer of its
\* own whose deadline is timeoutMs after that attempt invoked fn; an attempt times out
\* exactly then, with its call unsettled and the error 'Timeout after {timeoutMs}ms',
\* and is then a failed attempt like any other: logged, followed by the backoff delay
\* when attempts remain, and the error of the Result when it was the last; an attempt
\* whose call settles does so no later than its deadline
C19_TimeoutPerAttempt ==
  /\ []((Retrying /\ TimeoutPositive) =>
          /\ pc = "await" =>
               \E t \in timers :
                 t.kind = "timeout" /\ t.attempt = attempt /\ clock + t.left = TimeoutMs
          /\ \A i \in 1 .. Len(trace) :
               /\ trace[i].how = "timeout" =>
                    /\ trace[i].ran = TimeoutMs
                    /\ LogEnabled =>
                         (Len(log) >= i /\ log[i].v = "Timeout after 2ms" /\ IsError(log[i]))
                    /\ i - 1 < opts.retries =>
                         (trace[i].delay >= 0 /\ (opts.jitter # "true" => trace[i].delay = BackoffMs(i - 1)))
                    /\ i - 1 = opts.retries =>
                         (pc = "done" /\ result.st = "resolved" /\ result.r[1].v = "Timeout after 2ms")
               /\ trace[i].how \in {"resolved", "rejected"} => trace[i].ran <= TimeoutMs)
  /\ [][(Retrying /\ TimeoutPositive /\ \E i \in 1 .. Len(trace) :
            trace[i].how = "pending" /\ trace'[i].how = "timeout") =>
          (calls[attempt + 1].st = "pending" /\ calls' = calls /\ Len(log') = Len(log) + (IF LogEnabled THEN 1 ELSE 0))]_vars
  /\ [][(Retrying /\ TimeoutPositive /\ Len(calls') > Len(calls) /\ calls'[Len(calls')].st = "pending") =>
          Timer("timeout", Len(calls), TimeoutMs) \in timers']_vars

C19_Witness ==
  /\ Retrying /\ pc = "done" /\ opts.timeoutMs = {2} /\ opts.retries = 1 /\ opts.jitter = "absent"
  /\ opts.initialDelayMs = {}
  /\ Len(calls) = 2 /\ calls[1].st = "pending" /\ calls[2].st = "pending"
  /\ trace[1].how = "timeout" /\ trace[1].ran = 2 /\ trace[1].delay = 100
  /\ trace[2].how = "timeout" /\ trace[2].waited = 100 /\ trace[2].ran = 2
  /\ result.r[1].v = "Timeout after 2ms"

\* what the caller of safeWithRetries and its logger can see, and where the loop stands
RetryProgress == <<pc, result, log, attempt, normalizedError, trace, Len(calls)>>

\* the calls of fn whose attempt has ended by its timeout while they were pending
Abandoned == {i \in 1 .. Len(calls) : calls[i].st = "pending" /\ trace[i].how = "timeout"}

\* the timers of safeTimeout whose attempt already has its outcome
LateTimers == {t \in timers : t.kind = "timeout" /\ trace[t.attempt + 1].how # "pending"}

\* C20: when a call of fn whose attempt has timed out settles, and when the timer of an
\* attempt that already has its outcome fires, nothing else changes: not the Result,
\* not the logger calls, not the attempts made or to be made, not the timers that run;
\* the Result of a call whose last attempt timed out carries the timeout error even
\* when the call of that attempt has settled since
C20_AbandonedOutcomeDiscarded ==
  /\ [][(Retrying /\ \E i \in Abandoned : calls'[i].st # "pending") =>
          (RetryProgress' = RetryProgress /\ timers' = timers)]_vars
  /\ [][(Retrying /\ \E t \in LateTimers : t \notin timers') =>
          (RetryProgress' = RetryProgress /\ calls' = calls)]_vars
  /\ []((Retrying /\ pc = "done" /\ AllFailed /\ opts.retries >= 0
            /\ trace[Len(trace)].how = "timeout") =>
          (result.st = "resolved" /\ result.r[1].v = "Timeout after 2ms" /\ result.r[2] = Undefined))

C20_Witness ==
  /\ Retrying /\ pc = "done" /\ opts.retries = 1 /\ opts.timeoutMs = {2} /\ LogEnabled
  /\ trace[1].how = "timeout" /\ trace[2].how = "timeout"
  /\ calls[1] = [st |-> "rejected", v |-> ErrorObj("E1", "first")]
  /\ calls[2] = [st |-> "resolved", v |-> Str("ok")]
  /\ result.r[1].v = "Timeout after 2ms" /\ result.r[2] = Undefined
  /\ Len(log) = 2 /\ log[2] = result.r[1]

Batch == op \in {"safeAll", "safeObservableAll"}

\* the promises of the sequence of indices seq that have rejected
RejectedIn(seq) == SelectSeq(seq, LAMBDA i : promises[i].st = "rejected")

\* the logger calls that go with the rejections of the promises of seq, in that order
LogOf(seq) == [k \in 1 .. Len(seq) |-> normalizeError(promises[seq[k]].v)]

IsPrefix(s, t) == Len(s) <= Len(t) /\ \A k \in 1 .. Len(s) : s[k] = t[k]

\* the reactions that have run and those that are queued, oldest first
Reactions == trace \o jobs

\* C21 as stated: in safeAll and safeObservableAll with the logging on, the logger is
\* called once for each rejected promise and never for a resolved one, and the calls
\* come in the order in which the promises rejected, whatever the input order
C21_LogInRejectionOrder ==
  (Batch /\ LogEnabled) =>
    /\ IsPrefix(log, LogOf(RejectedIn(settled)))
    /\ Len(log) = Len(RejectedIn(trace))

\* C21 amended: the logger is called once for each rejected promise whose reaction has
\* run and never for a resolved one, in the order in which the reactions run; the
\* reactions of the promises that had settled before the call run first and in input
\* order, whatever the order in which those promises settled, and the reactions of the
\* promises that settle after the call follow in the order in which these settle
C21_LogInReactionOrder ==
  /\ []((Batch /\ LogEnabled) => log = LogOf(RejectedIn(trace)))
  /\ []((Batch /\ ~LogEnabled) => log = <<>>)
  /\ [](Batch => \A k, l \in 1 .. Len(Reactions) : Reactions[k] = Reactions[l] => k = l)
  /\ [][(op = "none" /\ Batch') => Reactions' = InOrder({settled'[k] : k \in 1 .. Len(settled')})]_vars
  /\ [][(Batch /\ settled' # settled) => Reactions' = Append(Reactions, settled'[Len(settled')])]_vars
  /\ [][(Batch /\ settled' = settled) => Reactions' = Reactions]_vars

\* the second promise had rejected before the first when safeAll was called, and the
\* logger got the error of the first promise first
C21_Witness ==
  /\ op = "safeAll" /\ LogEnabled /\ pc = "done" /\ settled = <<2, 1>> /\ trace = <<1, 2>>
  /\ promises[1] = [st |-> "rejected", v |-> ErrorObj("E1", "first")]
  /\ promises[2] = [st |-> "rejected", v |-> Str("boom")]
  /\ Len(log) = 2 /\ log[1] = ErrorObj("E1", "first") /\ log[2].v = "boom"
  /\ result.st = "resolved" /\ result.r[1][1] = log[1] /\ result.r[2][1] = log[2]

\* C22: for every value of retries, those below 0 included, a call of safeWithRetries
\* that has resolved has invoked fn at least once, and its error slot is null only if
\* one of these invocations resolved
C22_NullErrorOnlyAfterSuccess ==
  (Retrying /\ result.st = "resolved") =>
    /\ Len(calls) >= 1
    /\ result.r[1] = Null => \E i \in 1 .. Len(calls) : calls[i].st = "resolved"

Resolved_ == Retrying /\ pc = "done" /\ result.st = "resolved"

\* the call awaits a promise of fn with no timer to end the attempt
AwaitsUntimed == Retrying /\ pc = "await" /\ ~timeoutSet(opts)

\* C23: under fair timers a call with retries >= 0 and a positive timeoutMs resolves
\* whatever the promises of fn do, after at most retries + 1 attempts and retries
\* delays; without timeoutMs a call that awaits a promise of fn stays pending, and
\* nothing happens, until that promise settles, and the call resolves provided that
\* every promise of fn it awaits settles in the end
C23_ResolvesUnderFairTimers ==
  /\ (Retrying /\ opts.retries >= 0 /\ TimeoutPositive) ~> Resolved_
  /\ [](Resolved_ /\ opts.retries >= 0 =>
          /\ Len(calls) <= opts.retries + 1
          /\ Cardinality({i \in 1 .. Len(trace) : trace[i].delay >= 0}) <= opts.retries)
  /\ [](AwaitsUntimed => (result.st = "pending" /\ timers = {} /\ calls[attempt + 1].st = "pending"))
  /\ [][AwaitsUntimed => calls'[attempt + 1].st # "pending"]_vars
  /\ []((Resolved_ /\ ~timeoutSet(opts)) => \A i \in 1 .. Len(calls) : calls[i].st # "pending")
  /\ WF_vars(FnSettles) => ((Retrying /\ opts.retries >= 0) ~> Resolved_)

\* none of the three calls of fn has settled, each attempt has ended by its timeout and
\* the call has resolved with the timeout error
C23_Witness ==
  /\ Retrying /\ opts.retries = 2 /\ opts.timeoutMs = {2} /\ pc = "done"
  /\ \A i \in 1 .. 3 : trace[i].how = "timeout" /\ calls[i].st = "pending"
  /\ result.st = "resolved" /\ result.r[1].v = "Timeout after 2ms"

\* the invocations of fn whose promise has not settled
PendingCalls == {i \in 1 .. Len(calls) : calls[i].st = "pending"}

\* timeoutMs is absent, or 0, which the specification does not count as a timeout
NoTimeout == opts.timeoutMs \subseteq {0}

\* C24: without timeoutMs at most one invocation of fn made by a call of safeWithRetries
\* is unsettled at any time, and it is the one of the attempt that is awaited; with
\* timeoutMs a call that timed out stays pending while later attempts invoke fn, never
\* more than retries + 1 of them at once (the witness has all retries + 1 pending)
C24_PendingInvocations ==
  Retrying =>
    /\ NoTimeout => (Cardinality(PendingCalls) <= 1 /\ Abandoned = {})
    /\ (NoTimeout /\ PendingCalls # {}) => (pc = "await" /\ PendingCalls = {attempt + 1})
    /\ opts.retries >= 0 => Cardinality(PendingCalls) <= opts.retries + 1
    /\ \A i \in PendingCalls : i = attempt + 1 \/ trace[i].how = "timeout"

\* with timeoutMs, the third attempt has invoked fn while the calls of the first and of
\* the second attempt are still pending: retries + 1 = 3 calls are pending at once
C24_Witness ==
  /\ Retrying /\ opts.retries = 2 /\ opts.timeoutMs = {2} /\ pc = "await" /\ attempt = 2
  /\ PendingCalls = {1, 2, 3}
  /\ trace[1].how = "timeout" /\ trace[2].how = "timeout" /\ trace[3].how = "pending"

ObservableAll == op = "safeObservableAll"

\* the rejected promises whose catch callback has run
HandledRejections == {i \in 1 .. Len(promises) : promises[i].st = "rejected" /\ items[i].st # "pending"}

\* what a subscriber of a stream that emits v once and completes has received
OneThenComplete(v) == <<[e |-> "next", v |-> v], [e |-> "complete", v |-> Undefined]>>

\* C25: safeObservableAll does its work from the call on, not per subscription: queued
\* reactions run whether or not anyone has subscribed, a subscription changes neither
\* the logger calls nor the promises, the logger is called once per rejected item
\* whatever the number of subscribers, and every subscriber, early or late, has nothing
\* while the promise of the call is pending and the one sequence and the completion
\* once it has resolved
C25_EagerAndShared ==
  /\ [](ObservableAll =>
          /\ LogEnabled => Len(log) = Cardinality(HandledRejections)
          /\ (LogEnabled /\ result.st = "resolved") =>
               Len(log) = Cardinality({i \in 1 .. Len(promises) : promises[i].st = "rejected"})
          /\ jobs # <<>> => ENABLED observableAllItemResumes
          /\ \A k \in 1 .. Len(subs) :
               subs[k].events = (IF result.st = "resolved" THEN OneThenComplete(result.r) ELSE <<>>))
  /\ [][(ObservableAll /\ Len(subs') > Len(subs)) =>
          (log' = log /\ result' = result /\ items' = items /\ jobs' = jobs /\ trace' = trace)]_vars

\* one of two promises rejected; with two subscribers the logger has been called once,
\* and both subscribers have the same sequence and the completion
C25_Witness ==
  /\ ObservableAll /\ LogEnabled /\ Len(promises) = 2 /\ Len(subs) = 2 /\ result.st = "resolved"
  /\ promises[1].st = "rejected" /\ promises[2].st = "resolved"
  /\ Len(log) = 1 /\ log[1] = result.r[1][1]
  /\ subs[1].events = OneThenComplete(result.r) /\ subs[2] = subs[1]
====
